---- MODULE Spec2Model ----
(***************************************************************************)
(* Metrics and risk scoring engine of BankAnalytics (src/metrics.py).      *)
(*                                                                         *)
(* The store is the SQLite database: the tables financial_statements,      *)
(* accounts and loans.  No query of the engine reads account_id, loan_id   *)
(* or customer_id, so accounts and loans are kept as bags of rows (row ->  *)
(* number of copies); financial_statements is a set of rows keyed by       *)
(* month.  Money is counted in whole units (the ratios do not depend on    *)
(* the unit).  Percentages returned by round(x, 2) are integers counting   *)
(* hundredths.  Arithmetic is exact (rationals as n/d); the binary         *)
(* floating-point error of the Python floats is not modelled.              *)
(***************************************************************************)
EXTENDS Integers, Sequences, FiniteSets, TLC

VARIABLES store, writes, out, calls, hist

vars == <<store, writes, out, calls, hist>>

-----------------------------------------------------------------------------
(* Bounds *)

MaxWrites == 3

(* Program constants *)

MONTHS_FOR_ANALYSIS == 12

(* EQUITY_PERCENTAGE set to a tenth *)
EQUITY_PERCENTAGE_Tenth == [n |-> 10, d |-> 100]

EQUITY_PERCENTAGE == [n |-> 15, d |-> 100]

-----------------------------------------------------------------------------
(* Row domains *)

Sectors == {"Technology", "Retail", "Energy"}

LoanAmounts == {3, 5}

(* the loans written: any sector and amount; the defaulted ones are Retail *)
LoanRows ==
    {r \in [sector : Sectors, loan_amount : LoanAmounts, default_flag : {0, 1}] :
        r.default_flag = 1 => r.sector = "Retail"}

AccountTypes == {"checking", "savings", "loan"}

(* a balance against which a year of profit is less than 0.005 percent *)
LargeBalance == 5000000

(* the accounts written: deposit accounts, one of them large, and one of   *)
(* another type                                                            *)
AccountRows ==
    {[account_type |-> "checking", balance |-> 1],
     [account_type |-> "checking", balance |-> 3],
     [account_type |-> "savings", balance |-> 2],
     [account_type |-> "savings", balance |-> LargeBalance],
     [account_type |-> "loan", balance |-> 2]}

RefProfile ==
    [interest_income |-> 10, interest_expense |-> 4, fee_income |-> 2,
     operating_cost |-> 5, net_profit |-> 3]

LossProfile ==
    [interest_income |-> 2, interest_expense |-> 3, fee_income |-> 0,
     operating_cost |-> 1, net_profit |-> -2]

(* the batches of consecutive months written: <<months, profile>> *)
Batches == {<<12, RefProfile>>, <<1, LossProfile>>}

StatementRow(m, p) ==
    [month |-> m, interest_income |-> p.interest_income,
     interest_expense |-> p.interest_expense, fee_income |-> p.fee_income,
     operating_cost |-> p.operating_cost, net_profit |-> p.net_profit]

EmptyStore ==
    [financial_statements |-> {},
     accounts |-> [r \in AccountRows |-> 0],
     loans |-> [r \in LoanRows |-> 0]]

-----------------------------------------------------------------------------
(* Arithmetic helpers *)

Min(a, b) == IF a < b THEN a ELSE b

Max(a, b) == IF a > b THEN a ELSE b

RECURSIVE SumFn(_)
SumFn(f) ==
    IF DOMAIN f = {} THEN 0
    ELSE LET x == CHOOSE y \in DOMAIN f : TRUE
         IN  f[x] + SumFn([y \in (DOMAIN f) \ {x} |-> f[y]])

(* RoundHalfEven rounding every fraction up *)
RoundHalfEven_Ceiling(n, d) ==
    IF n % d = 0 THEN n \div d ELSE (n \div d) + 1

(* n/d rounded to the nearest integer, ties to the even integer (d > 0):   *)
(* Python's round().                                                       *)
RoundHalfEven(n, d) ==
    LET q == n \div d
        r == n % d
    IN  IF 2 * r < d THEN q
        ELSE IF 2 * r > d THEN q + 1
        ELSE IF q % 2 = 0 THEN q ELSE q + 1

(* RoundPct rounding the quotient to 2 decimals before the scaling by 100 *)
RoundPct_QuotientFirst(n, d) == RoundHalfEven(n * 100, d) * 100

(* round(n/d * 100, 2), in hundredths of a percent point *)
RoundPct(n, d) == RoundHalfEven(n * 10000, d)

-----------------------------------------------------------------------------
(* Log records: <<level, site>> *)

LogWarn(site) == <<"WARNING", site>>

LogError(site) == <<"ERROR", site>>

LogInfo(site) == <<"INFO", site>>

-----------------------------------------------------------------------------
(* The SQL queries.  A NULL aggregate is <<>>, a value v is <<v>>.         *)

NULL == <<>>

DepositTypes == {"checking", "savings"}

(* AnalysisWindow with ORDER BY month ASC *)
AnalysisWindow_Oldest(stmts) ==
    {p \in stmts :
        Cardinality({q \in stmts : q.month < p.month}) < MONTHS_FOR_ANALYSIS}

(* ORDER BY month DESC LIMIT MONTHS_FOR_ANALYSIS *)
AnalysisWindow(stmts) ==
    {p \in stmts :
        Cardinality({q \in stmts : q.month > p.month}) < MONTHS_FOR_ANALYSIS}

(* the distinct rows of a table kept as a bag *)
Present(bag) == {r \in DOMAIN bag : bag[r] > 0}

(* DepositRows without the WHERE account_type IN ('checking', 'savings') *)
DepositRows_AllTypes(accounts) == Present(accounts)

(* the rows of accounts WHERE account_type IN ('checking', 'savings') *)
DepositRows(accounts) ==
    {r \in Present(accounts) : r.account_type \in DepositTypes}

(* SUM(balance) ... WHERE account_type IN ('checking', 'savings') *)
SumBalance(accounts) ==
    IF DepositRows(accounts) = {} THEN NULL
    ELSE <<SumFn([r \in DepositRows(accounts) |-> accounts[r] * r.balance])>>

LoanCount(loans) == SumFn([r \in Present(loans) |-> loans[r]])

DefaultedRows(loans) == {r \in Present(loans) : r.default_flag = 1}

(* SUM(loan_amount) FROM loans *)
SumLoanAmount(loans) ==
    IF LoanCount(loans) = 0 THEN NULL
    ELSE <<SumFn([r \in Present(loans) |-> loans[r] * r.loan_amount])>>

(* SUM(CASE WHEN default_flag = 1 THEN loan_amount ELSE 0 END) FROM loans *)
SumDefaultedAmount(loans) ==
    IF LoanCount(loans) = 0 THEN NULL
    ELSE <<SumFn([r \in DefaultedRows(loans) |-> loans[r] * r.loan_amount])>>

(* COUNT(CASE WHEN default_flag = 1 THEN 1 END) FROM loans *)
CountDefaulted(loans) == SumFn([r \in DefaultedRows(loans) |-> loans[r]])

(* COALESCE(x, 0) *)
Coalesce(x) == IF x = NULL THEN <<0>> ELSE x

SectorsPresent(loans) == {r.sector : r \in Present(loans)}

OfSector(loans, s) == {r \in Present(loans) : r.sector = s}

(* SectorRow whose defaulted_count counts every loan of the sector *)
SectorRow_DefaultedCountAll(loans, s) ==
    [sector |-> s,
     loan_count |-> SumFn([r \in OfSector(loans, s) |-> loans[r]]),
     total_exposure |->
        SumFn([r \in OfSector(loans, s) |-> loans[r] * r.loan_amount]),
     defaulted_exposure |->
        SumFn([r \in OfSector(loans, s) \cap DefaultedRows(loans) |->
                  loans[r] * r.loan_amount]),
     defaulted_count |-> SumFn([r \in OfSector(loans, s) |-> loans[r]])]

(* one row of ... FROM loans GROUP BY sector *)
SectorRow(loans, s) ==
    [sector |-> s,
     loan_count |-> SumFn([r \in OfSector(loans, s) |-> loans[r]]),
     total_exposure |->
        SumFn([r \in OfSector(loans, s) |-> loans[r] * r.loan_amount]),
     defaulted_exposure |->
        SumFn([r \in OfSector(loans, s) \cap DefaultedRows(loans) |->
                  loans[r] * r.loan_amount]),
     defaulted_count |->
        SumFn([r \in OfSector(loans, s) \cap DefaultedRows(loans) |-> loans[r]])]

SectorRowSet(loans) == {SectorRow(loans, s) : s \in SectorsPresent(loans)}

(* OrderedDesc for ORDER BY total_exposure ASC *)
OrderedDesc_Ascending(rows) ==
    \A i \in 1..(Len(rows) - 1) :
        rows[i].total_exposure <= rows[i + 1].total_exposure

(* rows is in an order ORDER BY total_exposure DESC allows *)
OrderedDesc(rows) ==
    \A i \in 1..(Len(rows) - 1) :
        rows[i].total_exposure >= rows[i + 1].total_exposure

(* ORDER BY total_exposure DESC: SQLite leaves the order of rows of equal  *)
(* total_exposure open, so the query has one result per such order.        *)
SectorQueryResults(loans) ==
    LET S == SectorRowSet(loans)
        n == Cardinality(S)
    IN  {rows \in [1..n -> S] :
            /\ \A i, j \in 1..n : i # j => rows[i] # rows[j]
            /\ OrderedDesc(rows)}

Queries ==
    {"statements", "deposits_coalesce", "loans_coalesce", "deposits_sum",
     "loans_sum", "default_agg", "npl_agg", "sector_agg"}

(* The possible results of query q on store st: val is the DataFrame,     *)
(* empty is df.empty.                                                      *)
QueryResults(q, st) ==
    CASE q = "statements" ->
            {[val |-> AnalysisWindow(st.financial_statements),
              empty |-> (st.financial_statements = {})]}
      [] q = "deposits_coalesce" ->
            {[val |-> Coalesce(SumBalance(st.accounts)), empty |-> FALSE]}
      [] q = "loans_coalesce" ->
            {[val |-> Coalesce(SumLoanAmount(st.loans)), empty |-> FALSE]}
      [] q = "deposits_sum" ->
            {[val |-> SumBalance(st.accounts), empty |-> FALSE]}
      [] q = "loans_sum" ->
            {[val |-> SumLoanAmount(st.loans), empty |-> FALSE]}
      [] q = "default_agg" ->
            {[val |-> [defaulted_loans |-> <<CountDefaulted(st.loans)>>,
                       total_loans |-> <<LoanCount(st.loans)>>,
                       defaulted_amount |-> SumDefaultedAmount(st.loans),
                       total_amount |-> SumLoanAmount(st.loans)],
              empty |-> FALSE]}
      [] q = "npl_agg" ->
            {[val |-> [npl_amount |-> SumDefaultedAmount(st.loans),
                       total_loans |-> SumLoanAmount(st.loans)],
              empty |-> FALSE]}
      [] q = "sector_agg" ->
            {[val |-> rows, empty |-> (rows = <<>>)] :
                rows \in SectorQueryResults(st.loans)}

(* A response is what _safe_query_execution gives its caller: a DataFrame  *)
(* (ok) or a raised exception (~ok).                                       *)
Raised == [ok |-> FALSE, val |-> <<>>, empty |-> FALSE]

safe_query_execution(q, st, fails) ==
    IF fails THEN {Raised}
    ELSE {[ok |-> TRUE, val |-> r.val, empty |-> r.empty] :
             r \in QueryResults(q, st)}

(* QueryLog recording a failed query at warning level *)
QueryLog_FailureAsWarning(resp) ==
    IF ~resp.ok \/ resp.empty THEN {LogWarn("_safe_query_execution")} ELSE {}

(* what _safe_query_execution logs for one response *)
QueryLog(resp) ==
    IF ~resp.ok THEN {LogError("_safe_query_execution")}
    ELSE IF resp.empty THEN {LogWarn("_safe_query_execution")}
    ELSE {}

(* the responses a calculator receives before its try block is left: up to *)
(* and including the first raised one                                      *)
Issued(r) ==
    {i \in 1..Len(r) : \A j \in 1..(i - 1) : r[j].ok}

AnyRaised(r) == \E i \in 1..Len(r) : ~r[i].ok

QueriesLog(r) == UNION {QueryLog(r[i]) : i \in Issued(r)}

safe_get_value(x) == IF x = NULL THEN 0 ELSE x[1]

ColumnSum(df, col) == SumFn([p \in df |-> p[col]])

-----------------------------------------------------------------------------
(* The calculators.  Each takes the sequence r of responses to its queries *)
(* (a response after a raised one was never issued and is ignored) and     *)
(* gives [value, raised, log]: the value returned, whether an exception    *)
(* leaves the calculator, and the log records written.                     *)

(* ExceptFallback re-raising instead of returning the fallback *)
ExceptFallback_Reraise(site, fallback, r) ==
    [value |-> fallback, raised |-> TRUE,
     log |-> QueriesLog(r) \cup {LogError(site)}]

(* ZeroFallback without its logger.warning *)
ZeroFallback_NoWarning(site, r) ==
    [value |-> 0, raised |-> FALSE, log |-> QueriesLog(r)]

(* except Exception as e: logger.error(...); return <fallback> *)
ExceptFallback(site, fallback, r) ==
    [value |-> fallback, raised |-> FALSE,
     log |-> QueriesLog(r) \cup {LogError(site)}]

ZeroFallback(site, r) ==
    [value |-> 0, raised |-> FALSE, log |-> QueriesLog(r) \cup {LogWarn(site)}]

Return(site, v, r) ==
    [value |-> v, raised |-> FALSE, log |-> QueriesLog(r) \cup {LogInfo(site)}]

(* r = <<statements, deposits_coalesce, loans_coalesce>> *)
calculate_net_interest_margin(r) ==
    IF AnyRaised(r) THEN ExceptFallback("calculate_net_interest_margin", 0, r)
    ELSE
      LET df == r[1].val
          total_interest_income ==
              IF Cardinality(df) > 0 THEN ColumnSum(df, "interest_income") ELSE 0
          total_interest_expense ==
              IF Cardinality(df) > 0 THEN ColumnSum(df, "interest_expense") ELSE 0
          deposits == safe_get_value(r[2].val)
          loans == safe_get_value(r[3].val)
          avg_assets == deposits + loans
      IN  IF avg_assets = 0
          THEN ZeroFallback("calculate_net_interest_margin", r)
          ELSE Return("calculate_net_interest_margin",
                      RoundPct(total_interest_income - total_interest_expense,
                               avg_assets), r)

(* calculate_roa taking the mean of net_profit over the window, not the sum *)
calculate_roa_MeanProfit(r) ==
    IF AnyRaised(r) THEN ExceptFallback("calculate_roa", 0, r)
    ELSE
      LET profit_df == r[1].val
          periods == Max(Cardinality(profit_df), 1)
          total_profit ==
              IF Cardinality(profit_df) > 0
              THEN ColumnSum(profit_df, "net_profit") ELSE 0
          total_assets == safe_get_value(r[2].val) + safe_get_value(r[3].val)
      IN  IF total_assets = 0
          THEN ZeroFallback("calculate_roa", r)
          ELSE Return("calculate_roa",
                      RoundPct(total_profit, total_assets * periods), r)

(* r = <<statements, deposits_coalesce, loans_coalesce>> *)
calculate_roa(r) ==
    IF AnyRaised(r) THEN ExceptFallback("calculate_roa", 0, r)
    ELSE
      LET profit_df == r[1].val
          total_profit ==
              IF Cardinality(profit_df) > 0
              THEN ColumnSum(profit_df, "net_profit") ELSE 0
          deposits == safe_get_value(r[2].val)
          loans == safe_get_value(r[3].val)
          total_assets == deposits + loans
      IN  IF total_assets = 0
          THEN ZeroFallback("calculate_roa", r)
          ELSE Return("calculate_roa", RoundPct(total_profit, total_assets), r)

(* r = <<statements, deposits_coalesce, loans_coalesce>> *)
calculate_roe(r) ==
    IF AnyRaised(r) THEN ExceptFallback("calculate_roe", 0, r)
    ELSE
      LET profit_df == r[1].val
          total_profit ==
              IF Cardinality(profit_df) > 0
              THEN ColumnSum(profit_df, "net_profit") ELSE 0
          deposits == safe_get_value(r[2].val)
          loans == safe_get_value(r[3].val)
          total_assets == deposits + loans
          (* equity = total_assets * EQUITY_PERCENTAGE, as equityN/equityD *)
          equityN == total_assets * EQUITY_PERCENTAGE.n
          equityD == EQUITY_PERCENTAGE.d
      IN  IF equityN = 0
          THEN ZeroFallback("calculate_roe", r)
          ELSE Return("calculate_roe",
                      RoundPct(total_profit * equityD, equityN), r)

(* calculate_cost_to_income_ratio taking interest_income alone as income *)
calculate_cost_to_income_ratio_InterestOnly(r) ==
    IF AnyRaised(r) THEN ExceptFallback("calculate_cost_to_income_ratio", 0, r)
    ELSE
      LET df == r[1].val
          total_costs ==
              IF Cardinality(df) > 0 THEN ColumnSum(df, "operating_cost") ELSE 0
          total_income ==
              IF Cardinality(df) > 0 THEN ColumnSum(df, "interest_income") ELSE 0
      IN  IF total_income = 0
          THEN ZeroFallback("calculate_cost_to_income_ratio", r)
          ELSE Return("calculate_cost_to_income_ratio",
                      RoundPct(total_costs, total_income), r)

(* r = <<statements>> *)
calculate_cost_to_income_ratio(r) ==
    IF AnyRaised(r) THEN ExceptFallback("calculate_cost_to_income_ratio", 0, r)
    ELSE
      LET df == r[1].val
          total_costs ==
              IF Cardinality(df) > 0 THEN ColumnSum(df, "operating_cost") ELSE 0
          total_income ==
              IF Cardinality(df) > 0
              THEN ColumnSum(df, "interest_income") + ColumnSum(df, "fee_income")
              ELSE 0
      IN  IF total_income = 0
          THEN ZeroFallback("calculate_cost_to_income_ratio", r)
          ELSE Return("calculate_cost_to_income_ratio",
                      RoundPct(total_costs, total_income), r)

(* calculate_loan_to_deposit_ratio falling back to 100.0 on zero deposits *)
calculate_loan_to_deposit_ratio_FallbackHundred(r) ==
    IF AnyRaised(r) THEN ExceptFallback("calculate_loan_to_deposit_ratio", 0, r)
    ELSE
      LET total_deposits == safe_get_value(r[1].val)
          total_loans == safe_get_value(r[2].val)
      IN  IF total_deposits = 0
          THEN [value |-> 10000, raised |-> FALSE,
                log |-> QueriesLog(r)
                          \cup {LogWarn("calculate_loan_to_deposit_ratio")}]
          ELSE Return("calculate_loan_to_deposit_ratio",
                      RoundPct(total_loans, total_deposits), r)

(* r = <<deposits_sum, loans_sum>> *)
calculate_loan_to_deposit_ratio(r) ==
    IF AnyRaised(r) THEN ExceptFallback("calculate_loan_to_deposit_ratio", 0, r)
    ELSE
      LET total_deposits == safe_get_value(r[1].val)
          total_loans == safe_get_value(r[2].val)
      IN  IF total_deposits = 0
          THEN ZeroFallback("calculate_loan_to_deposit_ratio", r)
          ELSE Return("calculate_loan_to_deposit_ratio",
                      RoundPct(total_loans, total_deposits), r)

(* calculate_default_rate returning its two rates in the other order *)
calculate_default_rate_Swapped(r) ==
    IF AnyRaised(r) THEN ExceptFallback("calculate_default_rate", <<0, 0>>, r)
    ELSE
      LET df == r[1].val
          total_loans == safe_get_value(df.total_loans)
          defaulted_loans == safe_get_value(df.defaulted_loans)
          defaulted_amount == safe_get_value(df.defaulted_amount)
          total_amount == safe_get_value(df.total_amount)
      IN  IF total_loans = 0
          THEN [value |-> <<0, 0>>, raised |-> FALSE,
                log |-> QueriesLog(r) \cup {LogWarn("calculate_default_rate")}]
          ELSE Return("calculate_default_rate",
                      <<IF total_amount > 0
                        THEN RoundPct(defaulted_amount, total_amount) ELSE 0,
                        RoundPct(defaulted_loans, total_loans)>>,
                      r)

(* r = <<default_agg>>; the value is <<rate_by_count, rate_by_value>> *)
calculate_default_rate(r) ==
    IF AnyRaised(r) THEN ExceptFallback("calculate_default_rate", <<0, 0>>, r)
    ELSE
      LET df == r[1].val
          total_loans == safe_get_value(df.total_loans)
          defaulted_loans == safe_get_value(df.defaulted_loans)
          defaulted_amount == safe_get_value(df.defaulted_amount)
          total_amount == safe_get_value(df.total_amount)
      IN  IF total_loans = 0
          THEN [value |-> <<0, 0>>, raised |-> FALSE,
                log |-> QueriesLog(r) \cup {LogWarn("calculate_default_rate")}]
          ELSE Return("calculate_default_rate",
                      <<RoundPct(defaulted_loans, total_loans),
                        IF total_amount > 0
                        THEN RoundPct(defaulted_amount, total_amount) ELSE 0>>,
                      r)

(* calculate_npl_ratio cutting the ratio to 2 decimals, not rounding it *)
calculate_npl_ratio_Truncated(r) ==
    IF AnyRaised(r) THEN ExceptFallback("calculate_npl_ratio", 0, r)
    ELSE
      LET df == r[1].val
          total_loans == safe_get_value(df.total_loans)
          npl_amount == safe_get_value(df.npl_amount)
      IN  IF total_loans = 0
          THEN ZeroFallback("calculate_npl_ratio", r)
          ELSE Return("calculate_npl_ratio",
                      (npl_amount * 10000) \div total_loans, r)

(* r = <<npl_agg>> *)
calculate_npl_ratio(r) ==
    IF AnyRaised(r) THEN ExceptFallback("calculate_npl_ratio", 0, r)
    ELSE
      LET df == r[1].val
          total_loans == safe_get_value(df.total_loans)
          npl_amount == safe_get_value(df.npl_amount)
      IN  IF total_loans = 0
          THEN ZeroFallback("calculate_npl_ratio", r)
          ELSE Return("calculate_npl_ratio",
                      RoundPct(npl_amount, total_loans), r)

(* TotalExposure as the largest total_exposure, not the sum *)
TotalExposure_Largest(rows) ==
    IF Len(rows) = 0 THEN 0
    ELSE LET i == CHOOSE k \in 1..Len(rows) :
                     \A j \in 1..Len(rows) :
                         rows[j].total_exposure <= rows[k].total_exposure
         IN  rows[i].total_exposure

(* df['total_exposure'].sum() *)
TotalExposure(rows) ==
    SumFn([i \in 1..Len(rows) |-> rows[i].total_exposure])

(* r = <<sector_agg>>; the value is the sequence of rows, default_rate and *)
(* exposure_pct being unrounded quotients n/d                              *)
calculate_credit_exposure_by_sector(r) ==
    IF AnyRaised(r)
    THEN ExceptFallback("calculate_credit_exposure_by_sector", <<>>, r)
    ELSE
      LET df == r[1].val
      IN  IF Len(df) = 0
          THEN [value |-> df, raised |-> FALSE,
                log |-> QueriesLog(r)
                          \cup {LogWarn("calculate_credit_exposure_by_sector")}]
          ELSE Return("calculate_credit_exposure_by_sector",
                 [i \in 1..Len(df) |->
                    [sector |-> df[i].sector,
                     loan_count |-> df[i].loan_count,
                     total_exposure |-> df[i].total_exposure,
                     defaulted_exposure |-> df[i].defaulted_exposure,
                     defaulted_count |-> df[i].defaulted_count,
                     default_rate |->
                        [n |-> df[i].defaulted_count * 100,
                         d |-> df[i].loan_count],
                     exposure_pct |->
                        [n |-> df[i].total_exposure * 100,
                         d |-> TotalExposure(df)]]],
                 r)

-----------------------------------------------------------------------------
(* The composite risk index.  Scores are counted in 1/200 of a point (so   *)
(* that (80 - ldr) * 0.5 of an ldr in hundredths is an integer): 40 points *)
(* are 8000, 20 are 4000, 30 are 6000, 10 are 2000, 100 are 20000.         *)

(* npl_score without its cap *)
npl_score_NoCap(npl_ratio) == npl_ratio * 20

(* min(npl_ratio * 10, 40) *)
npl_score(npl_ratio) == Min(npl_ratio * 20, 8000)

(* ldr_score with the operands of the first difference exchanged *)
ldr_score_SignSlip(ldr) ==
    Min(IF ldr < 8000 THEN ldr - 8000
        ELSE IF ldr > 10000 THEN ldr - 10000
        ELSE 0,
        4000)

(* ldr_score penalising every ldr above 90 *)
ldr_score_Band90(ldr) ==
    Min(IF ldr < 8000 THEN 8000 - ldr
        ELSE IF ldr > 9000 THEN ldr - 9000
        ELSE 0,
        4000)

(* (80 - ldr) * 0.5 if ldr < 80, (ldr - 100) * 0.5 if ldr > 100, else 0;   *)
(* then min(ldr_score, 20)                                                 *)
ldr_score(ldr) ==
    Min(IF ldr < 8000 THEN 8000 - ldr
        ELSE IF ldr > 10000 THEN ldr - 10000
        ELSE 0,
        4000)

(* default_score without its cap *)
default_score_NoCap(default_rate_value) == default_rate_value * 6

(* min(default_rate_value * 3, 30) *)
default_score(default_rate_value) == Min(default_rate_value * 6, 6000)

(* hhi as the square of the sum of the shares *)
hhi_SquareOfSum(exposure_df) ==
    [n |-> 10000 * TotalExposure(exposure_df) * TotalExposure(exposure_df),
     d |-> TotalExposure(exposure_df) * TotalExposure(exposure_df)]

(* hhi as the sum of the shares, not squared *)
hhi_SharesNotSquared(exposure_df) ==
    [n |-> 100 * TotalExposure(exposure_df), d |-> TotalExposure(exposure_df)]

(* hhi = sum of exposure_pct ** 2, exposure_pct = total_exposure / sum * 100 *)
hhi(exposure_df) ==
    [n |-> 10000 * SumFn([i \in 1..Len(exposure_df) |->
                 exposure_df[i].total_exposure * exposure_df[i].total_exposure]),
     d |-> TotalExposure(exposure_df) * TotalExposure(exposure_df)]

(* concentration_score giving 0 when there is no sector row *)
concentration_score_EmptyZero(exposure_df) ==
    IF Len(exposure_df) > 0
    THEN [n |-> 10000 * SumFn([i \in 1..Len(exposure_df) |->
                 exposure_df[i].total_exposure * exposure_df[i].total_exposure]),
          d |-> TotalExposure(exposure_df) * TotalExposure(exposure_df) * 5]
    ELSE [n |-> 0, d |-> 1]

(* (hhi / 10000) * 10 if len(exposure_df) > 0, else 10; as n/d *)
concentration_score(exposure_df) ==
    IF Len(exposure_df) > 0
    THEN [n |-> hhi(exposure_df).n, d |-> hhi(exposure_df).d * 5]
    ELSE [n |-> 2000, d |-> 1]

(* npl_score + ldr_score + default_score + concentration_score, as n/d *)
total_risk_score(npl, ldr, def, conc) ==
    [n |-> (npl + ldr + def) * conc.d + conc.n, d |-> conc.d]

(* min(total_risk_score, 100) *)
risk_index(total) ==
    IF total.n > 20000 * total.d THEN [n |-> 20000 * total.d, d |-> total.d]
    ELSE total

(* the four contributions computed from the responses                      *)
(* r = <<npl_agg, deposits_sum, loans_sum, default_agg, sector_agg>>       *)
RiskParts(r) ==
    LET npl == calculate_npl_ratio(<<r[1]>>)
        ldr == calculate_loan_to_deposit_ratio(<<r[2], r[3]>>)
        dr == calculate_default_rate(<<r[4]>>)
        ex == calculate_credit_exposure_by_sector(<<r[5]>>)
    IN  [npl_ratio |-> npl.value,
         ldr |-> ldr.value,
         default_rate_value |-> dr.value[2],
         exposure_df |-> ex.value,
         npl_score |-> npl_score(npl.value),
         ldr_score |-> ldr_score(ldr.value),
         default_score |-> default_score(dr.value[2]),
         concentration_score |-> concentration_score(ex.value),
         raised |-> npl.raised \/ ldr.raised \/ dr.raised \/ ex.raised,
         log |-> npl.log \cup ldr.log \cup dr.log \cup ex.log]

(* calculate_bank_risk_index taking its own except branch when a query of *)
(* a sub-calculator fails                                                  *)
calculate_bank_risk_index_FailureZero(r) ==
    LET p == RiskParts(r)
        total == total_risk_score(p.npl_score, p.ldr_score, p.default_score,
                                  p.concentration_score)
    IN  IF p.raised \/ AnyRaised(r)
        THEN [value |-> 0, raised |-> FALSE,
              log |-> p.log \cup {LogError("calculate_bank_risk_index")}]
        ELSE [value |-> RoundHalfEven(risk_index(total).n,
                                      2 * risk_index(total).d),
              raised |-> FALSE,
              log |-> p.log \cup {LogInfo("calculate_bank_risk_index")}]

calculate_bank_risk_index(r) ==
    LET p == RiskParts(r)
        total == total_risk_score(p.npl_score, p.ldr_score, p.default_score,
                                  p.concentration_score)
    IN  IF p.raised
        THEN [value |-> 0, raised |-> FALSE,
              log |-> p.log \cup {LogError("calculate_bank_risk_index")}]
        ELSE [value |-> RoundHalfEven(risk_index(total).n,
                                      2 * risk_index(total).d),
              raised |-> FALSE,
              log |-> p.log \cup {LogInfo("calculate_bank_risk_index")}]

SummaryKeys ==
    {"total_assets", "total_deposits", "total_loans", "interest_income",
     "interest_expense", "fee_income", "operating_cost", "net_profit"}

(* get_financial_summary reporting the deposits alone as total_assets *)
get_financial_summary_AssetsAreDeposits(r) ==
    IF AnyRaised(r)
    THEN ExceptFallback("get_financial_summary", [k \in SummaryKeys |-> 0], r)
    ELSE
      LET df == r[1].val
          Total(col) == IF Cardinality(df) > 0 THEN ColumnSum(df, col) ELSE 0
          total_deposits == safe_get_value(r[2].val)
          total_loans == safe_get_value(r[3].val)
      IN  Return("get_financial_summary",
                 [total_assets |-> total_deposits,
                  total_deposits |-> total_deposits,
                  total_loans |-> total_loans,
                  interest_income |-> Total("interest_income"),
                  interest_expense |-> Total("interest_expense"),
                  fee_income |-> Total("fee_income"),
                  operating_cost |-> Total("operating_cost"),
                  net_profit |-> Total("net_profit")],
                 r)

(* r = <<statements, deposits_sum, loans_sum>> *)
get_financial_summary(r) ==
    IF AnyRaised(r)
    THEN ExceptFallback("get_financial_summary", [k \in SummaryKeys |-> 0], r)
    ELSE
      LET df == r[1].val
          Total(col) == IF Cardinality(df) > 0 THEN ColumnSum(df, col) ELSE 0
          total_deposits == safe_get_value(r[2].val)
          total_loans == safe_get_value(r[3].val)
      IN  Return("get_financial_summary",
                 [total_assets |-> total_deposits + total_loans,
                  total_deposits |-> total_deposits,
                  total_loans |-> total_loans,
                  interest_income |-> Total("interest_income"),
                  interest_expense |-> Total("interest_expense"),
                  fee_income |-> Total("fee_income"),
                  operating_cost |-> Total("operating_cost"),
                  net_profit |-> Total("net_profit")],
                 r)

-----------------------------------------------------------------------------
(* The ten public operations *)

MetricOps ==
    {"calculate_net_interest_margin", "calculate_roa", "calculate_roe",
     "calculate_cost_to_income_ratio", "calculate_loan_to_deposit_ratio",
     "calculate_default_rate", "calculate_npl_ratio"}

Ops ==
    MetricOps \cup {"calculate_credit_exposure_by_sector",
                    "calculate_bank_risk_index", "get_financial_summary"}

(* the queries an operation issues, in order *)
QueryPlan(op) ==
    CASE op = "calculate_net_interest_margin" ->
            <<"statements", "deposits_coalesce", "loans_coalesce">>
      [] op = "calculate_roa" ->
            <<"statements", "deposits_coalesce", "loans_coalesce">>
      [] op = "calculate_roe" ->
            <<"statements", "deposits_coalesce", "loans_coalesce">>
      [] op = "calculate_cost_to_income_ratio" -> <<"statements">>
      [] op = "calculate_loan_to_deposit_ratio" -> <<"deposits_sum", "loans_sum">>
      [] op = "calculate_default_rate" -> <<"default_agg">>
      [] op = "calculate_npl_ratio" -> <<"npl_agg">>
      [] op = "calculate_credit_exposure_by_sector" -> <<"sector_agg">>
      [] op = "calculate_bank_risk_index" ->
            <<"npl_agg", "deposits_sum", "loans_sum", "default_agg", "sector_agg">>
      [] op = "get_financial_summary" ->
            <<"statements", "deposits_sum", "loans_sum">>

Calculate(op, r) ==
    CASE op = "calculate_net_interest_margin" -> calculate_net_interest_margin(r)
      [] op = "calculate_roa" -> calculate_roa(r)
      [] op = "calculate_roe" -> calculate_roe(r)
      [] op = "calculate_cost_to_income_ratio" -> calculate_cost_to_income_ratio(r)
      [] op = "calculate_loan_to_deposit_ratio" -> calculate_loan_to_deposit_ratio(r)
      [] op = "calculate_default_rate" -> calculate_default_rate(r)
      [] op = "calculate_npl_ratio" -> calculate_npl_ratio(r)
      [] op = "calculate_credit_exposure_by_sector" ->
            calculate_credit_exposure_by_sector(r)
      [] op = "calculate_bank_risk_index" -> calculate_bank_risk_index(r)
      [] op = "get_financial_summary" -> get_financial_summary(r)

(* The sets of query positions that can raise in one run of op.  A raised  *)
(* query ends its calculator, so its later queries are not issued: each    *)
(* calculator has at most one raising query.  calculate_bank_risk_index    *)
(* runs four calculators (positions 1, 2-3, 4, 5), each of which can end   *)
(* that way.                                                               *)
FailureSets(op) ==
    IF op = "calculate_bank_risk_index"
    THEN {a \cup b \cup c \cup d :
            a \in {{}, {1}}, b \in {{}, {2}, {3}}, c \in {{}, {4}},
            d \in {{}, {5}}}
    ELSE {{}} \cup {{i} : i \in 1..Len(QueryPlan(op))}

(* The responses of one run of the queries plan[1..i] on the unchanging    *)
(* store st in which the queries at the positions in F raise.              *)
RECURSIVE ResponsesUpTo(_, _, _, _)
ResponsesUpTo(plan, st, F, i) ==
    IF i = 0 THEN {<<>>}
    ELSE {Append(r, x) : r \in ResponsesUpTo(plan, st, F, i - 1),
                         x \in safe_query_execution(plan[i], st, i \in F)}

Responses(op, st, F) ==
    ResponsesUpTo(QueryPlan(op), st, F, Len(QueryPlan(op)))

-----------------------------------------------------------------------------
(* State.                                                                  *)
(*   store  - the three tables                                             *)
(*   writes - number of INSERT statements run so far                       *)
(*   out    - the last completed call of a sequential caller: operation,   *)
(*            responses it received, result                                *)
(*   calls  - the calls in flight of the concurrent callers                *)
(*   hist   - the states the store has been in while they run              *)

Callers == {"c1", "c2"}

NoResult == [value |-> 0, raised |-> FALSE, log |-> {}]

(* pc counts the queries the call has issued, resp holds their responses,  *)
(* snap is the store at its first query, torn says that a writer committed *)
(* between two of its queries, mixed that the other caller issued a query  *)
(* between two of its queries                                              *)
Idle == [op |-> "none", pc |-> 0, resp |-> <<>>, snap |-> EmptyStore,
         torn |-> FALSE, mixed |-> FALSE, done |-> FALSE, result |-> NoResult]

Init ==
    /\ store = EmptyStore
    /\ writes = 0
    /\ out = [op |-> "none", resp |-> <<>>, result |-> NoResult]
    /\ calls = [c \in Callers |-> Idle]
    /\ hist = {EmptyStore}

(* INSERT INTO loans *)
InsertLoan(row) ==
    [store EXCEPT !.loans[row] = @ + 1]

(* INSERT INTO accounts *)
InsertAccount(row) ==
    [store EXCEPT !.accounts[row] = @ + 1]

LastMonth(stmts) ==
    IF stmts = {} THEN 0
    ELSE CHOOSE m \in {p.month : p \in stmts} : \A p \in stmts : p.month <= m

(* INSERT INTO financial_statements, k consecutive months of one profile   *)
InsertStatements(k, prof) ==
    [store EXCEPT !.financial_statements =
        @ \cup {StatementRow(LastMonth(@) + j, prof) : j \in 1..k}]

Writes ==
    {InsertLoan(row) : row \in LoanRows}
      \cup {InsertAccount(row) : row \in AccountRows}
      \cup {InsertStatements(b[1], b[2]) : b \in Batches}

NoCall == [op |-> "none", resp |-> <<>>, result |-> NoResult]

(* a writer commits one INSERT between two calls of the sequential caller  *)
Populate ==
    /\ out = NoCall
    /\ writes < MaxWrites
    /\ \E st \in Writes : store' = st
    /\ writes' = writes + 1
    /\ UNCHANGED <<out, calls, hist>>

(* Call whose except branch rolls the tables back to their state after     *)
(* create_database                                                         *)
Call_FailureResetsTables(op) ==
    /\ out = NoCall
    /\ \E F \in FailureSets(op) :
         \E r \in Responses(op, store, F) :
            /\ out' = [op |-> op, resp |-> r, result |-> Calculate(op, r)]
            /\ store' = IF AnyRaised(r) THEN EmptyStore ELSE store
    /\ UNCHANGED <<writes, calls, hist>>

(* one call of a public operation by a sequential caller, start to return: *)
(* its queries are SELECT statements, the tables stay as they are          *)
Call(op) ==
    /\ out = NoCall
    /\ \E F \in FailureSets(op) :
         \E r \in Responses(op, store, F) :
            out' = [op |-> op, resp |-> r, result |-> Calculate(op, r)]
    /\ UNCHANGED <<store, writes, calls, hist>>

(* the caller drops the result (derived values are not kept) *)
Discard ==
    /\ out # NoCall
    /\ out' = NoCall
    /\ UNCHANGED <<store, writes, calls, hist>>

(* Reread with the rows of equal total_exposure coming back in any order *)
Reread_TiesInAnyOrder(q, st, prev) == safe_query_execution(q, st, FALSE)

(* query q, which returned prev, is issued again on the store st it was    *)
(* issued on, nothing written in between: SQLite runs the same statement   *)
(* on the same database file and returns the same rows in the same order   *)
Reread(q, st, prev) == {prev}

(* the caller calls the operation that has just returned once more, the    *)
(* store being as it was; the queries of both calls all run (a call with   *)
(* failing queries is a Call)                                              *)
Repeat(op) ==
    /\ out.op = op
    /\ ~AnyRaised(out.resp)
    /\ \E r \in Responses(op, store, {}) :
          /\ \A i \in 1..Len(r) :
                out.resp[i].ok =>
                    r[i] \in Reread(QueryPlan(op)[i], store, out.resp[i])
          /\ out' = [op |-> op, resp |-> r, result |-> Calculate(op, r)]
    /\ UNCHANGED <<store, writes, calls, hist>>

(* The risk page of the dashboard.  show_risk_overview calls               *)
(* calculate_default_rate, calculate_npl_ratio, calculate_bank_risk_index  *)
(* and calculate_credit_exposure_by_sector, and, for its composition       *)
(* chart, calculate_loan_to_deposit_ratio once more.                       *)
PagePlan ==
    <<"default_agg", "npl_agg",
      "npl_agg", "deposits_sum", "loans_sum", "default_agg", "sector_agg",
      "sector_agg", "deposits_sum", "loans_sum">>

(* at most one query of a rendering raises *)
PageFailureSets == {{}} \cup {{i} : i \in 1..Len(PagePlan)}

(* risk_components = {'NPL Ratio': min(npl_ratio * 10, 40),                *)
(*   'Loan-to-Deposit': min(abs(ldr - 90) * 0.5, 20),                      *)
(*   'Default Rate': min(default_rate_value * 3, 30), 'Concentracao': 10}, *)
(* in 1/200 point                                                          *)
risk_components(npl_ratio, ldr, default_rate_value) ==
    [npl_ratio |-> Min(npl_ratio * 20, 8000),
     loan_to_deposit |-> Min(Max(ldr - 9000, 9000 - ldr), 4000),
     default_rate |-> Min(default_rate_value * 6, 6000),
     concentracao |-> 2000]

(* what the page shows, from the responses r to the queries of PagePlan *)
show_risk_overview(r) ==
    LET dr == calculate_default_rate(<<r[1]>>)
        npl == calculate_npl_ratio(<<r[2]>>)
        ri == calculate_bank_risk_index(SubSeq(r, 3, 7))
        ex == calculate_credit_exposure_by_sector(<<r[8]>>)
        ldr == calculate_loan_to_deposit_ratio(<<r[9], r[10]>>)
    IN  [value |-> [default_rate_value |-> dr.value[2],
                    npl_ratio |-> npl.value,
                    risk_index |-> ri.value,
                    exposure_df |-> ex.value,
                    risk_components |->
                        risk_components(npl.value, ldr.value, dr.value[2])],
         raised |-> FALSE,
         log |-> dr.log \cup npl.log \cup ri.log \cup ex.log \cup ldr.log]

(* one rendering of the risk page: the tables stay as they are, and a      *)
(* query issued twice is answered twice alike                              *)
ShowRiskOverview ==
    /\ out = NoCall
    /\ \E F \in PageFailureSets :
         \E r \in ResponsesUpTo(PagePlan, store, F, Len(PagePlan)) :
            /\ \A i, j \in 1..Len(r) :
                  (i < j /\ PagePlan[i] = PagePlan[j] /\ r[i].ok /\ r[j].ok) =>
                      r[j] \in Reread(PagePlan[j], store, r[i])
            /\ out' = [op |-> "show_risk_overview", resp |-> r,
                       result |-> show_risk_overview(r)]
    /\ UNCHANGED <<store, writes, calls, hist>>

Next ==
    \/ Populate
    \/ \E op \in Ops : Call(op)
    \/ \E op \in Ops : Repeat(op)
    \/ ShowRiskOverview
    \/ Discard

Spec == Init /\ [][Next]_vars

-----------------------------------------------------------------------------
(* The sequential engine started on the database of the test fixture       *)
(* test_db, in units of 100,000: 12 periods of 1,000,000 / 400,000 /       *)
(* 200,000 / 500,000 / 300,000, a checking account of 100,000, a savings   *)
(* account of 200,000, a Technology loan of 500,000 not in default and a   *)
(* Retail loan of 300,000 in default.                                      *)

Unit == 100000

RefStore ==
    [financial_statements |-> {StatementRow(m, RefProfile) : m \in 1..12},
     accounts |-> [r \in AccountRows |->
                     IF r \in {[account_type |-> "checking", balance |-> 1],
                               [account_type |-> "savings", balance |-> 2]}
                     THEN 1 ELSE 0],
     loans |-> [r \in LoanRows |->
                  IF r \in {[sector |-> "Technology", loan_amount |-> 5,
                             default_flag |-> 0],
                            [sector |-> "Retail", loan_amount |-> 3,
                             default_flag |-> 1]}
                  THEN 1 ELSE 0]]

InitRef ==
    /\ store = RefStore
    /\ writes = 0
    /\ out = NoCall
    /\ calls = [c \in Callers |-> Idle]
    /\ hist = {RefStore}

SpecRef == InitRef /\ [][Next]_vars

-----------------------------------------------------------------------------
(* Concurrent callers (Streamlit sessions sharing the cached connection)   *)
(* and a writer.  A call runs query by query; nothing encloses its queries *)
(* in a transaction, so a writer can commit between two of them.           *)

MaxConcWrites == 2

(* the database after initialize_database *)
SeedStore ==
    [financial_statements |-> {StatementRow(m, RefProfile) : m \in 1..12},
     accounts |-> [r \in AccountRows |->
                     IF r = [account_type |-> "checking", balance |-> 3]
                     THEN 1 ELSE 0],
     loans |-> [r \in LoanRows |->
                  IF r = [sector |-> "Technology", loan_amount |-> 5,
                          default_flag |-> 0]
                  THEN 1 ELSE 0]]

InitConc ==
    /\ store = SeedStore
    /\ writes = 0
    /\ out = NoCall
    /\ calls = [c \in Callers |-> Idle]
    /\ hist = {SeedStore}

ConcWrites ==
    {InsertLoan([sector |-> "Retail", loan_amount |-> 3, default_flag |-> 1]),
     InsertAccount([account_type |-> "savings", balance |-> 2])}

(* ReadView with the loan totals read from a cache filled at start-up *)
ReadView_StaleLoans(st, q) ==
    IF q \in {"loans_coalesce", "loans_sum"}
    THEN [st EXCEPT !.loans = SeedStore.loans]
    ELSE st

(* pd.read_sql_query(query, conn): query q reads the committed state of    *)
(* the store at the moment it is issued                                    *)
ReadView(st, q) == st

(* Locals with the DataFrames of calculate_loan_to_deposit_ratio kept in a  *)
(* module-level list shared by its invocations                             *)
Locals_SharedLdrBuffer(cs, c, op) ==
    IF /\ op = "calculate_loan_to_deposit_ratio"
       /\ \E k \in Callers \ {c} : cs[k].op = op /\ ~cs[k].done
    THEN cs[CHOOSE k \in Callers \ {c} : cs[k].op = op /\ ~cs[k].done].resp
    ELSE cs[c].resp

(* the local DataFrames of the invocation of op by caller c: every         *)
(* invocation has its own                                                  *)
Locals(cs, c, op) == cs[c].resp

(* the positions of the plan that belong to the calculator issuing query i *)
QueryGroup(op, i) ==
    IF op = "calculate_bank_risk_index"
    THEN IF i \in {2, 3} THEN {2, 3} ELSE {i}
    ELSE 1..Len(QueryPlan(op))

(* resp extended by response x; a query that raised ends the calculator    *)
(* that issued it, whose remaining queries are then never issued           *)
RECURSIVE Extend(_, _, _)
Extend(op, resp, x) ==
    LET i == Len(resp) + 1
        r == Append(resp, x)
    IN  IF ~x.ok /\ (i + 1) \in QueryGroup(op, i)
        THEN Extend(op, r, Raised)
        ELSE r

(* the call cur of caller c issues its next query; after the last one it   *)
(* computes and holds the value it returns                                 *)
Issue(c, cur) ==
    LET op == cur.op
        q == QueryPlan(op)[cur.pc + 1]
    IN  \E x \in safe_query_execution(q, ReadView(store, q), FALSE) :
          LET r == Extend(op, Locals(calls, c, op), x)
          IN  calls' = [k \in Callers |->
                 IF k # c
                 THEN IF calls[k].op # "none" /\ ~calls[k].done
                      THEN [calls[k] EXCEPT !.mixed = TRUE]
                      ELSE calls[k]
                 ELSE IF Len(r) >= Len(QueryPlan(op))
                      THEN [cur EXCEPT !.pc = Len(r), !.resp = r,
                                       !.done = TRUE,
                                       !.result = Calculate(op, r)]
                      ELSE [cur EXCEPT !.pc = Len(r), !.resp = r]]

(* no call holds a value that has not reached its caller yet: the return   *)
(* is a local step of the caller, it commutes with every step of the other *)
(* caller and of the writer and is taken before them                      *)
NoneReturning == \A c \in Callers : ~calls[c].done

(* caller c enters operation op, which issues its first query *)
Start(c, op) ==
    /\ NoneReturning
    /\ calls[c] = Idle
    /\ Issue(c, [Idle EXCEPT !.op = op, !.snap = store])
    /\ UNCHANGED <<store, writes, out, hist>>

(* the operation of caller c goes on to its next query *)
Step(c) ==
    /\ NoneReturning
    /\ calls[c].op # "none"
    /\ Issue(c, calls[c])
    /\ UNCHANGED <<store, writes, out, hist>>

(* the value reaches caller c *)
Finish(c) ==
    /\ calls[c].done
    /\ calls' = [calls EXCEPT ![c] = Idle]
    /\ UNCHANGED <<store, writes, out, hist>>

(* a writer commits an INSERT *)
Write ==
    /\ NoneReturning
    /\ writes < MaxConcWrites
    /\ \E st \in ConcWrites : store' = st
    /\ writes' = writes + 1
    /\ hist' = hist \cup {store'}
    /\ calls' = [c \in Callers |->
                   IF calls[c].op = "none" \/ calls[c].done THEN calls[c]
                   ELSE [calls[c] EXCEPT !.torn = TRUE]]
    /\ out' = out

NextConc ==
    \/ \E c \in Callers, op \in Ops : Start(c, op)
    \/ \E c \in Callers : Step(c)
    \/ \E c \in Callers : Finish(c)
    \/ Write

SpecConc == InitConc /\ [][NextConc]_vars

-----------------------------------------------------------------------------
(* Properties of the sequential engine (Spec).  In a state with            *)
(* out.op = op the call of op has just returned out.result on the present  *)
(* store, having received the responses out.resp.                          *)

RiskCall == out.op = "calculate_bank_risk_index"

(* the four contributions of the risk call that has just returned *)
Parts == RiskParts(out.resp)

(* a quotient n/d compared with an integer k *)
QuotEq(x, k) == x.n = k * x.d

QuotLt(x, k) == x.n < k * x.d

(* C1: calculate_bank_risk_index returns a value r with 0 <= r <= 100, for *)
(* every content of the three tables, all empty included, and whichever    *)
(* of its queries fail.                                                    *)
C1_RiskIndexInRange ==
    RiskCall => (0 <= out.result.value /\ out.result.value <= 10000)

(* the index reaches its upper end: one defaulted loan and no deposits *)
C1_Witness ==
    /\ RiskCall
    /\ ~AnyRaised(out.resp)
    /\ LoanCount(store.loans) > 0
    /\ out.result.value = 10000

(* the sum of the four capped contributions, written out term by term,       *)
(* as a quotient n/d of 1/200 points                                       *)
C2_CappedSum ==
    LET NPL == calculate_npl_ratio(<<out.resp[1]>>).value
        LDR == calculate_loan_to_deposit_ratio(<<out.resp[2], out.resp[3]>>).value
        DRv == calculate_default_rate(<<out.resp[4]>>).value[2]
        L == IF LDR < 8000 THEN 8000 - LDR
             ELSE IF LDR > 10000 THEN LDR - 10000 ELSE 0
        C == Parts.concentration_score
    IN  [n |-> (Min(NPL * 20, 8000) + Min(L, 4000) + Min(DRv * 6, 6000)) * C.d
                  + C.n,
         d |-> C.d]

(* C2 as stated: when no query fails calculate_bank_risk_index returns     *)
(* exactly min(NPL*10, 40) + min(L, 20) + min(DRv*3, 30) + C.              *)
C2_ReturnsExactSum ==
    (RiskCall /\ ~AnyRaised(out.resp)) =>
        out.result.value * 2 * C2_CappedSum.d = C2_CappedSum.n

(* C2 amended: when no query fails calculate_bank_risk_index returns       *)
(* min(NPL*10, 40) + min(L, 20) + min(DRv*3, 30) + C rounded to 2 decimal  *)
(* places, each term being clamped to its cap before the terms are added.  *)
C2_ReturnsRoundedCappedSum ==
    (RiskCall /\ ~AnyRaised(out.resp)) =>
        out.result.value = RoundHalfEven(C2_CappedSum.n, 2 * C2_CappedSum.d)

(* NPL = 37.5 contributes 40: the index stays below 100 *)
C2_Witness ==
    /\ RiskCall
    /\ ~AnyRaised(out.resp)
    /\ Parts.npl_ratio = 3750
    /\ Parts.npl_score = 8000
    /\ out.result.value < 10000

C4_ConcentrationTenIffSingleSector ==
    (RiskCall /\ out.resp[5].ok) =>
        IF Cardinality(SectorsPresent(store.loans)) <= 1
        THEN QuotEq(Parts.concentration_score, 2000)
        ELSE QuotLt(Parts.concentration_score, 2000)

(* several loans, all of one sector *)
C4_Witness ==
    /\ RiskCall
    /\ out.resp[5].ok
    /\ LoanCount(store.loans) >= 2
    /\ Cardinality(SectorsPresent(store.loans)) = 1
    /\ QuotEq(Parts.concentration_score, 2000)

(* C5: when the loans table is empty the concentration contribution is     *)
(* exactly 10.                                                             *)
C5_EmptyLoansConcentrationTen ==
    (RiskCall /\ LoanCount(store.loans) = 0) =>
        QuotEq(Parts.concentration_score, 2000)

(* the sector aggregation ran and returned no rows *)
C5_Witness ==
    /\ RiskCall
    /\ out.resp[5].ok
    /\ out.resp[5].val = <<>>
    /\ LoanCount(store.loans) = 0
    /\ writes > 0
    /\ QuotEq(Parts.concentration_score, 2000)

(* the zero/default value of an operation *)
Default(op) ==
    CASE op = "calculate_default_rate" -> <<0, 0>>
      [] op = "calculate_credit_exposure_by_sector" -> <<>>
      [] op = "get_financial_summary" -> [k \in SummaryKeys |-> 0]
      [] OTHER -> 0

TotalDeposits(st) == safe_get_value(SumBalance(st.accounts))

TotalLoans(st) == safe_get_value(SumLoanAmount(st.loans))

TotalAssets(st) == TotalDeposits(st) + TotalLoans(st)

WindowSum(st, col) == ColumnSum(AnalysisWindow(st.financial_statements), col)

(* the denominator of the formula of metric op is zero on store st *)
ZeroDenominator(op, st) ==
    CASE op \in {"calculate_net_interest_margin", "calculate_roa",
                 "calculate_roe"} -> TotalAssets(st) = 0
      [] op = "calculate_cost_to_income_ratio" ->
            WindowSum(st, "interest_income") + WindowSum(st, "fee_income") = 0
      [] op = "calculate_loan_to_deposit_ratio" -> TotalDeposits(st) = 0
      [] op \in {"calculate_default_rate", "calculate_npl_ratio"} ->
            LoanCount(st.loans) = 0
      [] OTHER -> FALSE

(* C6: a metric calculator whose denominator is zero returns 0.0 (default  *)
(* rate: (0.0, 0.0)) and does not raise; it records its warning whenever   *)
(* its queries returned (a query that raised is recorded as an error).     *)
C6_ZeroDenominatorFallback ==
    (out.op \in MetricOps /\ ZeroDenominator(out.op, store)) =>
        /\ out.result.value = Default(out.op)
        /\ ~out.result.raised
        /\ ~AnyRaised(out.resp) => LogWarn(out.op) \in out.result.log

(* loans but no deposits: LDR falls back to 0.0 with its warning *)
C6_Witness ==
    /\ out.op = "calculate_loan_to_deposit_ratio"
    /\ ~AnyRaised(out.resp)
    /\ TotalDeposits(store) = 0
    /\ TotalLoans(store) > 0
    /\ out.result.value = 0
    /\ LogWarn("calculate_loan_to_deposit_ratio") \in out.result.log

(* the calculator that issues query i of operation op *)
IssuerOf(op, i) ==
    IF op = "calculate_bank_risk_index"
    THEN CASE i = 1 -> "calculate_npl_ratio"
           [] i \in {2, 3} -> "calculate_loan_to_deposit_ratio"
           [] i = 4 -> "calculate_default_rate"
           [] i = 5 -> "calculate_credit_exposure_by_sector"
    ELSE op

(* C7: a failed query is logged at error level and re-raised to the caller *)
(* of the calculation, which gets no zero/default value in its place.      *)
C7_FailureReraisedToCaller ==
    (out.op \in Ops /\ AnyRaised(out.resp)) =>
        /\ LogError("_safe_query_execution") \in out.result.log
        /\ out.result.raised

(* C7, what the code does instead: a failed query is logged at error level *)
(* by _safe_query_execution and re-raised to the calculator that issued    *)
(* it; that calculator catches it, logs it at error level and returns its  *)
(* zero/default value, so nothing is raised to the caller.                 *)
C7_FailureLoggedAndAbsorbed ==
    (out.op \in Ops /\ AnyRaised(out.resp)) =>
        /\ LogError("_safe_query_execution") \in out.result.log
        /\ \A i \in 1..Len(out.resp) :
              ~out.resp[i].ok => LogError(IssuerOf(out.op, i)) \in out.result.log
        /\ ~out.result.raised
        /\ out.op # "calculate_bank_risk_index" =>
              out.result.value = Default(out.op)

(* the loans query of NIM raises after two queries that returned, on a     *)
(* store whose NIM is not 0                                                *)
C7_Witness ==
    /\ out.op = "calculate_net_interest_margin"
    /\ out.resp[1].ok /\ out.resp[2].ok /\ ~out.resp[3].ok
    /\ TotalAssets(store) > 0
    /\ WindowSum(store, "interest_income") > WindowSum(store, "interest_expense")
    /\ out.result.value = 0
    /\ ~out.result.raised

-----------------------------------------------------------------------------
(* Properties of the concurrent callers (SpecConc).  A call with done set  *)
(* holds the value it returns.                                             *)

(* the values operation op can return when it runs alone on store st and   *)
(* no query fails                                                          *)
Alone(op, st) == {Calculate(op, r).value : r \in Responses(op, st, {})}

Returned(c) == calls[c].result.value

(* C9: the queries of a call run with no enclosing transaction; when no    *)
(* writer commits between its first and its last query the value returned  *)
(* is the value of the operation on one state the store has been in.       *)
C9_UntornCallMatchesOneState ==
    \A c \in Callers :
        (calls[c].done /\ ~calls[c].torn) =>
            \E st \in hist : Returned(c) \in Alone(calls[c].op, st)

(* C9, the torn snapshot: a writer committed between two queries of a call *)
(* and the value returned is the value of the operation on no state the    *)
(* store has been in.                                                      *)
C9_Witness ==
    \E c \in Callers :
        /\ calls[c].done
        /\ calls[c].torn
        /\ calls[c].op = "calculate_roa"
        /\ \A st \in hist : Returned(c) \notin Alone(calls[c].op, st)

(* C10: a call during which no writer commits returns a value the          *)
(* operation returns when run alone on the store it started on, whatever   *)
(* the other caller has run before it and runs between its queries.        *)
C10_ConcurrentCallsIndependent ==
    \A c \in Callers :
        (calls[c].done /\ ~calls[c].torn) =>
            Returned(c) \in Alone(calls[c].op, calls[c].snap)

(* a call of calculate_bank_risk_index returns after the other caller's    *)
(* call, still under way, issued queries between its own, on a store the   *)
(* writer had changed before and left alone meanwhile                      *)
C10_Witness ==
    \E c \in Callers : \E k \in Callers \ {c} :
        /\ writes > 0
        /\ calls[c].done
        /\ ~calls[c].torn
        /\ calls[c].mixed
        /\ calls[c].op = "calculate_bank_risk_index"
        /\ calls[c].snap = store
        /\ calls[k].op \notin {"none", calls[c].op}
        /\ calls[k].mixed
        /\ ~calls[k].torn

-----------------------------------------------------------------------------
(* Further properties of the sequential engine (Spec) *)

(* C11: no call of any of the ten public operations, a call with failing   *)
(* queries included, changes financial_statements, accounts or loans: a    *)
(* step in which a call returns leaves the store as it was.                *)
C11_EnginePerformsNoWrites ==
    [][(out.op = "none" /\ out'.op \in Ops) => store' = store]_vars

(* a call of calculate_bank_risk_index with a failing query has returned   *)
(* on a store that holds statements, an account and a loan                 *)
C11_Witness ==
    /\ RiskCall
    /\ AnyRaised(out.resp)
    /\ store.financial_statements # {}
    /\ Present(store.accounts) # {}
    /\ Present(store.loans) # {}

WindowedOps ==
    {"calculate_net_interest_margin", "calculate_roa", "calculate_roe",
     "calculate_cost_to_income_ratio", "get_financial_summary"}

(* the n periods of greatest month, all of them when there are fewer *)
RECURSIVE Recent(_, _)
Recent(stmts, n) ==
    IF n = 0 \/ stmts = {} THEN {}
    ELSE LET p == CHOOSE x \in stmts : \A q \in stmts : q.month <= x.month
         IN  {p} \cup Recent(stmts \ {p}, n - 1)

(* store st without the periods that are not among the n most recent *)
WithoutOlder(st, n) ==
    [st EXCEPT !.financial_statements = Recent(@, n)]

(* store st with the figures of those periods replaced by profile prof *)
WithOlderAs(st, n, prof) ==
    [st EXCEPT !.financial_statements =
        Recent(@, n) \cup {StatementRow(p.month, prof) : p \in @ \ Recent(@, n)}]

(* C13: the windowed operations (NIM, ROA, ROE, CIR, the sums of the       *)
(* financial summary) read exactly the 12 periods of greatest month, all   *)
(* periods when there are fewer than 12, and return what they return when  *)
(* the older periods are absent or hold other figures.                     *)
C13_WindowIsTwelveMostRecent ==
    (out.op \in WindowedOps /\ ~AnyRaised(out.resp)) =>
        LET all == store.financial_statements
            rec == Recent(all, 12)
        IN  /\ out.resp[1].val = rec
            /\ Cardinality(rec) = Min(Cardinality(all), 12)
            /\ out.result.value \in Alone(out.op, WithoutOlder(store, 12))
            /\ \A prof \in {RefProfile, LossProfile} :
                  out.result.value \in Alone(out.op, WithOlderAs(store, 12, prof))
            /\ out.op = "get_financial_summary" =>
                  \A col \in {"interest_income", "interest_expense",
                              "fee_income", "operating_cost", "net_profit"} :
                      out.result.value[col] = ColumnSum(rec, col)

(* calculate_roa has returned on a store of more than 12 periods whose     *)
(* older periods would change the profit summed                            *)
C13_Witness ==
    /\ out.op = "calculate_roa"
    /\ ~AnyRaised(out.resp)
    /\ Cardinality(store.financial_statements) > 12
    /\ ColumnSum(store.financial_statements, "net_profit")
          # ColumnSum(Recent(store.financial_statements, 12), "net_profit")
    /\ TotalAssets(store) > 0
    /\ out.result.value # 0

(* the periods of the analysis window of the store all have net_profit P *)
UniformProfit(P) ==
    \A p \in Recent(store.financial_statements, 12) : p.net_profit = P

(* C14: when the N periods of the window (N = 12, or all periods when the  *)
(* store holds fewer) each have the same net_profit P and total_assets A,  *)
(* the deposits of checking and savings accounts plus the sum of the loan  *)
(* amounts, is greater than 0, calculate_roa returns round(N*P/A*100, 2).  *)
C14_RoaOfUniformProfit ==
    (out.op = "calculate_roa" /\ ~AnyRaised(out.resp)) =>
        LET N == Cardinality(Recent(store.financial_statements, 12))
            A == TotalAssets(store)
        IN  \A P \in {RefProfile.net_profit, LossProfile.net_profit} :
                (N > 0 /\ UniformProfit(P) /\ A > 0) =>
                    out.result.value = RoundHalfEven(N * P * 100 * 100, A)

(* calculate_roa has returned on exactly 12 periods of net_profit 3 and    *)
(* total assets made of a deposit and a loan                               *)
C14_Witness ==
    /\ out.op = "calculate_roa"
    /\ ~AnyRaised(out.resp)
    /\ Cardinality(store.financial_statements) = 12
    /\ UniformProfit(3)
    /\ TotalDeposits(store) > 0
    /\ TotalLoans(store) > 0
    /\ out.result.value = RoundHalfEven(12 * 3 * 100 * 100, TotalAssets(store))

SectorCall == out.op = "calculate_credit_exposure_by_sector"

(* the sum of the exposure_pct of the first i rows, as a quotient n/d *)
RECURSIVE PctSum(_, _)
PctSum(rows, i) ==
    IF i = 0 THEN [n |-> 0, d |-> 1]
    ELSE LET x == PctSum(rows, i - 1)
             y == rows[i].exposure_pct
         IN  [n |-> x.n * y.d + y.n * x.d, d |-> x.d * y.d]

(* C16: whenever loans holds at least one loan, the exposure_pct values    *)
(* calculate_credit_exposure_by_sector returns sum to 100 over its rows.   *)
C16_ExposureSharesSumTo100 ==
    (SectorCall /\ ~AnyRaised(out.resp) /\ LoanCount(store.loans) > 0) =>
        LET v == out.result.value
        IN  /\ Len(v) > 0
            /\ \A i \in 1..Len(v) : v[i].exposure_pct.d > 0
            /\ QuotEq(PctSum(v, Len(v)), 100)

(* three sectors of unequal exposure have been returned *)
C16_Witness ==
    /\ SectorCall
    /\ ~AnyRaised(out.resp)
    /\ Len(out.result.value) = 3
    /\ out.result.value[1].total_exposure > out.result.value[3].total_exposure
    /\ QuotLt(out.result.value[3].exposure_pct, 34)

(* the number of loans of sector s whose default_flag is in flags *)
CountLoans(loans, s, flags) ==
    SumFn([r \in {x \in DOMAIN loans :
                     x.sector = s /\ x.default_flag \in flags} |-> loans[r]])

(* the sum of the loan_amount of the loans of sector s *)
AmountLoans(loans, s) ==
    SumFn([r \in {x \in DOMAIN loans : x.sector = s} |->
              loans[r] * r.loan_amount])

(* C17: calculate_credit_exposure_by_sector returns exactly one row per     *)
(* distinct sector present in loans, with loan_count the number of loans   *)
(* of the sector, total_exposure the sum of their loan_amount,             *)
(* defaulted_count the number of them with default_flag = 1, default_rate  *)
(* = defaulted_count/loan_count*100 and exposure_pct = total_exposure /    *)
(* (sum of total_exposure over all sectors) * 100; when loans is empty it  *)
(* returns an empty result and does not raise.                             *)
C17_OneRowPerSector ==
    (SectorCall /\ ~AnyRaised(out.resp)) =>
        LET v == out.result.value
            L == store.loans
            present == {s \in Sectors : CountLoans(L, s, {0, 1}) > 0}
            total == SumFn([s \in Sectors |-> AmountLoans(L, s)])
        IN  /\ ~out.result.raised
            /\ Len(v) = Cardinality(present)
            /\ {v[i].sector : i \in 1..Len(v)} = present
            /\ present = {} => v = <<>>
            /\ \A i \in 1..Len(v) :
                  LET s == v[i].sector
                  IN  /\ v[i].loan_count = CountLoans(L, s, {0, 1})
                      /\ v[i].total_exposure = AmountLoans(L, s)
                      /\ v[i].defaulted_count = CountLoans(L, s, {1})
                      /\ v[i].default_rate.n * v[i].loan_count
                            = v[i].defaulted_count * 100 * v[i].default_rate.d
                      /\ v[i].exposure_pct.n * total
                            = v[i].total_exposure * 100 * v[i].exposure_pct.d

(* two sectors have been returned, one of them with two loans of which one *)
(* is in default                                                           *)
C17_Witness ==
    /\ SectorCall
    /\ ~AnyRaised(out.resp)
    /\ Len(out.result.value) = 2
    /\ \E i \in 1..2 :
          /\ out.result.value[i].loan_count = 2
          /\ out.result.value[i].defaulted_count = 1

(* C18: the rows calculate_credit_exposure_by_sector returns are ordered   *)
(* by total_exposure descending: each row's total_exposure is greater than *)
(* or equal to that of the row after it.                                   *)
C18_RowsByExposureDescending ==
    SectorCall =>
        \A i \in 1..Len(out.result.value) : \A j \in 1..Len(out.result.value) :
            j = i + 1 =>
                out.result.value[i].total_exposure
                    >= out.result.value[j].total_exposure

(* two sectors have been returned, the sector of two loans before the      *)
(* sector of one loan of smaller total, against the order of their names   *)
C18_Witness ==
    /\ SectorCall
    /\ ~AnyRaised(out.resp)
    /\ Len(out.result.value) = 2
    /\ out.result.value[1].sector = "Technology"
    /\ out.result.value[1].loan_count = 2
    /\ out.result.value[2].sector = "Energy"
    /\ out.result.value[1].total_exposure > out.result.value[2].total_exposure

(* C19: on every loans table calculate_npl_ratio returns the value of the  *)
(* second, by-value component of calculate_default_rate, the two being     *)
(* computed from separate queries with separate zero checks: the two       *)
(* values agree inside one call of calculate_bank_risk_index, and a call   *)
(* of either calculator returns what the other returns on the same store.  *)
C19_NplEqualsDefaultRateByValue ==
    /\ (RiskCall /\ out.resp[1].ok /\ out.resp[4].ok) =>
          Parts.npl_ratio = Parts.default_rate_value
    /\ (out.op = "calculate_npl_ratio" /\ ~AnyRaised(out.resp)) =>
          \A r \in Responses("calculate_default_rate", store, {}) :
              calculate_default_rate(r).value[2] = out.result.value
    /\ (out.op = "calculate_default_rate" /\ ~AnyRaised(out.resp)) =>
          \A r \in Responses("calculate_npl_ratio", store, {}) :
              calculate_npl_ratio(r).value = out.result.value[2]

(* calculate_bank_risk_index has computed both on loans of which 3 out of  *)
(* 13 units are in default: 23.08 after rounding                           *)
C19_Witness ==
    /\ RiskCall
    /\ ~AnyRaised(out.resp)
    /\ TotalLoans(store) = 13
    /\ Parts.npl_ratio = 2308
    /\ Parts.default_rate_value = 2308

(* the sum of the loan_amount of the loans whose default_flag is in flags *)
AmountByFlag(loans, flags) ==
    SumFn([r \in {x \in DOMAIN loans : x.default_flag \in flags} |->
              loans[r] * r.loan_amount])

(* C20: on a non-empty loans table calculate_default_rate returns the pair *)
(* (defaulted_loan_count / total_loan_count * 100, sum of loan_amount of   *)
(* the defaulted loans / sum of all loan_amount * 100), each rounded to 2  *)
(* decimals, and both components are >= 0 and <= 100.                      *)
C20_DefaultRatePair ==
    (out.op = "calculate_default_rate" /\ ~AnyRaised(out.resp)) =>
        LET L == store.loans
            v == out.result.value
            count(flags) == SumFn([s \in Sectors |-> CountLoans(L, s, flags)])
        IN  count({0, 1}) > 0 =>
                /\ v[1] = RoundHalfEven(count({1}) * 100 * 100, count({0, 1}))
                /\ v[2] = RoundHalfEven(AmountByFlag(L, {1}) * 100 * 100,
                                        AmountByFlag(L, {0, 1}))
                /\ \A k \in {1, 2} : 0 <= v[k] /\ v[k] <= 10000

(* one loan of three is in default, 3 of 13 units: (33.33, 23.08) *)
C20_Witness ==
    /\ out.op = "calculate_default_rate"
    /\ ~AnyRaised(out.resp)
    /\ LoanCount(store.loans) = 3
    /\ out.result.value = <<3333, 2308>>

OtherAccountRows ==
    {r \in AccountRows : r.account_type \notin {"checking", "savings"}}

(* store st with k copies of every account row that is of no deposit type *)
WithOtherAccounts(st, k) ==
    [st EXCEPT !.accounts =
        [r \in AccountRows |-> IF r \in OtherAccountRows THEN k ELSE @[r]]]

(* the sum of balance over the accounts of type checking or savings *)
CheckingAndSavings(accounts) ==
    SumFn([r \in {x \in DOMAIN accounts :
                     x.account_type \in {"checking", "savings"}} |->
              accounts[r] * r.balance])

(* C21: total_deposits, as NIM, ROA, ROE, LDR and the financial summary    *)
(* use it, is the sum of balance over the accounts of type checking or     *)
(* savings, and no result of the engine changes when accounts of another   *)
(* type are removed, added or changed in number.                           *)
C21_OnlyDepositAccountsCount ==
    (out.op \in Ops /\ ~AnyRaised(out.resp)) =>
        /\ \A k \in {0, 2} :
              out.result.value \in Alone(out.op, WithOtherAccounts(store, k))
        /\ \A i \in 1..Len(out.resp) :
              QueryPlan(out.op)[i] \in {"deposits_coalesce", "deposits_sum"} =>
                  safe_get_value(out.resp[i].val)
                      = CheckingAndSavings(store.accounts)
        /\ out.op = "get_financial_summary" =>
              out.result.value.total_deposits
                  = CheckingAndSavings(store.accounts)

(* calculate_loan_to_deposit_ratio has returned on a store that holds a    *)
(* deposit account, an account of type loan and a loan                     *)
C21_Witness ==
    /\ out.op = "calculate_loan_to_deposit_ratio"
    /\ ~AnyRaised(out.resp)
    /\ \E r \in OtherAccountRows : store.accounts[r] > 0
    /\ CheckingAndSavings(store.accounts) > 0
    /\ out.result.value
          = RoundHalfEven(TotalLoans(store) * 100 * 100,
                          CheckingAndSavings(store.accounts))
    /\ out.result.value > 0

(* C22: get_financial_summary returns a mapping with exactly the keys      *)
(* total_assets, total_deposits, total_loans, interest_income,             *)
(* interest_expense, fee_income, operating_cost, net_profit; total_assets  *)
(* = total_deposits + total_loans, the two totals are the sums over the    *)
(* tables as they are now, the other five values are the sums of their     *)
(* column over the analysis window, and total_assets > 0 whenever a        *)
(* deposit balance or a loan amount is positive.                           *)
C22_SummaryMapping ==
    out.op = "get_financial_summary" =>
        LET v == out.result.value
            rec == Recent(store.financial_statements, 12)
        IN  /\ DOMAIN v = {"total_assets", "total_deposits", "total_loans",
                           "interest_income", "interest_expense", "fee_income",
                           "operating_cost", "net_profit"}
            /\ ~AnyRaised(out.resp) =>
                  /\ v.total_assets = v.total_deposits + v.total_loans
                  /\ v.total_deposits = CheckingAndSavings(store.accounts)
                  /\ v.total_loans = AmountByFlag(store.loans, {0, 1})
                  /\ \A col \in {"interest_income", "interest_expense",
                                 "fee_income", "operating_cost", "net_profit"} :
                        v[col] = ColumnSum(rec, col)
                  /\ (v.total_deposits > 0 \/ v.total_loans > 0) =>
                        v.total_assets > 0

(* the summary of a store that holds 13 periods, the oldest of a loss, and *)
(* a deposit or a loan                                                     *)
C22_Witness ==
    /\ out.op = "get_financial_summary"
    /\ ~AnyRaised(out.resp)
    /\ Cardinality(store.financial_statements) = 13
    /\ out.result.value.net_profit = 36
    /\ out.result.value.total_assets > 0

(* the sum of the four contributions of the returned risk call, as n/d in  *)
(* 1/200 point                                                             *)
PartsTotal ==
    total_risk_score(Parts.npl_score, Parts.ldr_score, Parts.default_score,
                     Parts.concentration_score)

(* the store holds valid rows: loan_amount > 0, deposit balances >= 0 *)
ValidInputs ==
    /\ \A l \in DOMAIN store.loans : l.loan_amount > 0
    /\ \A a \in DOMAIN store.accounts :
          a.account_type \in DepositTypes => a.balance >= 0

(* C24: under valid inputs (loan_amount > 0, deposit balances >= 0) the    *)
(* four capped contributions of calculate_bank_risk_index add up to at     *)
(* most 100, so min(total, 100) returns the total unchanged and the value  *)
(* returned is the rounded sum.                                            *)
C24_ClampNeverActs ==
    (RiskCall /\ ValidInputs) =>
        LET p == Parts
            total == total_risk_score(p.npl_score, p.ldr_score,
                                      p.default_score, p.concentration_score)
        IN  /\ p.npl_score <= 8000
            /\ p.ldr_score <= 4000
            /\ p.default_score <= 6000
            /\ p.concentration_score.n <= 2000 * p.concentration_score.d
            /\ total.n <= 20000 * total.d
            /\ risk_index(total) = total
            /\ out.result.value = RoundHalfEven(total.n, 2 * total.d)

(* every contribution at its cap: the sum is exactly 100 and is returned *)
C24_Witness ==
    /\ RiskCall /\ ValidInputs /\ ~AnyRaised(out.resp)
    /\ Parts.npl_score = 8000
    /\ Parts.ldr_score = 4000
    /\ Parts.default_score = 6000
    /\ QuotEq(Parts.concentration_score, 2000)
    /\ QuotEq(PartsTotal, 20000)
    /\ out.result.value = 10000

(* the exposure of sector s and of the whole portfolio, from the table *)
Exposure(s) == AmountLoans(store.loans, s)

Portfolio == SumFn([s \in Sectors |-> Exposure(s)])

(* the sum over the sectors of the squared exposure *)
SumSquares == SumFn([s \in Sectors |-> Exposure(s) * Exposure(s)])

(* the portfolio is split evenly over the sectors that have loans *)
EvenSplit ==
    \A s, t \in SectorsPresent(store.loans) : Exposure(s) = Exposure(t)

(* C25: the concentration contribution is HHI / 10000 * 10, HHI being the  *)
(* sum over sectors of the squared exposure share in percent; a portfolio  *)
(* split evenly over k sectors contributes 10 / k, and every non-empty     *)
(* portfolio contributes more than 0.                                      *)
C25_ConcentrationIsHhiTenth ==
    (RiskCall /\ out.resp[5].ok /\ LoanCount(store.loans) > 0) =>
        LET c == Parts.concentration_score
            k == Cardinality(SectorsPresent(store.loans))
        IN  /\ c.d > 0
            /\ c.n * Portfolio * Portfolio = 2000 * SumSquares * c.d
            /\ EvenSplit => c.n * k = 2000 * c.d
            /\ c.n > 0

(* three sectors with equal exposure: the contribution is 10 / 3 *)
C25_Witness ==
    /\ RiskCall /\ out.resp[5].ok
    /\ Cardinality(SectorsPresent(store.loans)) = 3
    /\ EvenSplit
    /\ Parts.concentration_score.n * 3 = 2000 * Parts.concentration_score.d

(* a metric calculator has returned and none of its queries failed *)
MetricCall == out.op \in MetricOps /\ ~AnyRaised(out.resp)

(* the unrounded quotient of metric op on the store, as numerator and      *)
(* denominator, before the scaling by 100; a pair of them for the default  *)
(* rate (by count, by value)                                               *)
Unrounded(op) ==
    LET w == Recent(store.financial_statements, MONTHS_FOR_ANALYSIS)
    IN  CASE op = "calculate_net_interest_margin" ->
                <<[n |-> ColumnSum(w, "interest_income")
                           - ColumnSum(w, "interest_expense"),
                   d |-> TotalAssets(store)]>>
          [] op = "calculate_roa" ->
                <<[n |-> ColumnSum(w, "net_profit"), d |-> TotalAssets(store)]>>
          [] op = "calculate_roe" ->
                <<[n |-> ColumnSum(w, "net_profit") * 100,
                   d |-> TotalAssets(store) * 15]>>
          [] op = "calculate_cost_to_income_ratio" ->
                <<[n |-> ColumnSum(w, "operating_cost"),
                   d |-> ColumnSum(w, "interest_income")
                           + ColumnSum(w, "fee_income")]>>
          [] op = "calculate_loan_to_deposit_ratio" ->
                <<[n |-> TotalLoans(store), d |-> TotalDeposits(store)]>>
          [] op = "calculate_default_rate" ->
                <<[n |-> SumFn([s \in Sectors |-> CountLoans(store.loans, s, {1})]),
                   d |-> LoanCount(store.loans)],
                  [n |-> AmountByFlag(store.loans, {1}),
                   d |-> AmountByFlag(store.loans, {0, 1})]>>
          [] op = "calculate_npl_ratio" ->
                <<[n |-> AmountByFlag(store.loans, {1}),
                   d |-> AmountByFlag(store.loans, {0, 1})]>>

(* the values returned by a metric call, as a sequence *)
ReturnedValues ==
    IF out.op = "calculate_default_rate"
    THEN out.result.value
    ELSE <<out.result.value>>

(* the whole number v is within one half of n/d (d > 0) *)
Nearest(v, n, d) ==
    /\ v \in Int
    /\ 2 * (v * d - n) <= d
    /\ 2 * (n - v * d) <= d

(* C26: every value returned by the seven metric calculators and by        *)
(* calculate_bank_risk_index is a whole number of hundredths, rounded once *)
(* at the point of return: it is within half a hundredth of the quotient   *)
(* of the unrounded sums (for the risk index, of the sum of its four       *)
(* unrounded contributions), so nothing inside the calculator was rounded. *)
C26_RoundedOnceAtReturn ==
    /\ (MetricCall /\ ~ZeroDenominator(out.op, store)) =>
          LET u == Unrounded(out.op)
              v == ReturnedValues
          IN  \A i \in 1..Len(u) :
                 /\ u[i].d > 0
                 /\ Nearest(v[i], u[i].n * 10000, u[i].d)
    /\ RiskCall =>
          LET p == Parts
              total == total_risk_score(p.npl_score, p.ldr_score,
                                        p.default_score, p.concentration_score)
          IN  Nearest(out.result.value, total.n, 2 * total.d)

(* a metric whose unrounded value has more than 2 decimals: loans of 5    *)
(* against deposits of 3 give 166.666..., returned as 166.67               *)
C26_Witness ==
    /\ MetricCall /\ ~ZeroDenominator(out.op, store)
    /\ out.op = "calculate_loan_to_deposit_ratio"
    /\ Unrounded(out.op) = <<[n |-> 5, d |-> 3]>>
    /\ out.result.value = 16667

(* calculate_roa has returned and none of its queries failed *)
RoaCall == out.op = "calculate_roa" /\ ~AnyRaised(out.resp)

(* the sum of net_profit over the 12 most recent periods *)
ProfitOfWindow ==
    ColumnSum(Recent(store.financial_statements, MONTHS_FOR_ANALYSIS),
              "net_profit")

(* C27 as stated: whenever the windowed sum of net_profit and total_assets *)
(* are strictly positive, calculate_roa returns a value strictly greater   *)
(* than 0.                                                                 *)
C27_RoaPositiveWheneverProfit ==
    (RoaCall /\ ProfitOfWindow > 0 /\ TotalAssets(store) > 0) =>
        out.result.value > 0

(* C27: whenever the windowed sum of net_profit and total_assets are       *)
(* strictly positive, calculate_roa returns a value >= 0, and the value is *)
(* strictly greater than 0 exactly when the unrounded ROA is above 0.005   *)
(* percent; at or below it the value returned is 0.0.                      *)
C27_RoaSignAfterRounding ==
    (RoaCall /\ ProfitOfWindow > 0 /\ TotalAssets(store) > 0) =>
        /\ out.result.value >= 0
        /\ out.result.value > 0
              <=> 2 * ProfitOfWindow * 10000 > TotalAssets(store)

(* a positive year of profit against assets above 5,000,000: the ROA of    *)
(* about 0.0007 percent is returned as 0.0                                 *)
C27_Witness ==
    /\ RoaCall
    /\ ProfitOfWindow > 0
    /\ TotalAssets(store) >= LargeBalance
    /\ out.result.value = 0
    /\ ~out.result.raised

(* C28: whenever total deposits are zero calculate_loan_to_deposit_ratio   *)
(* returns its fallback 0.0, and calculate_bank_risk_index takes that 0.0  *)
(* as an LDR below 80: its liquidity contribution is the cap of 20,        *)
(* whatever the amount of loans outstanding.                               *)
C28_NoDepositsLiquidityTwenty ==
    /\ (/\ out.op = "calculate_loan_to_deposit_ratio"
        /\ ~AnyRaised(out.resp)
        /\ TotalDeposits(store) = 0) =>
          out.result.value = 0
    /\ (/\ RiskCall
        /\ out.resp[2].ok /\ out.resp[3].ok
        /\ TotalDeposits(store) = 0) =>
          LET p == Parts
          IN  p.ldr = 0 /\ p.ldr_score = 4000

(* loans outstanding in two sizes and no deposit account: the liquidity    *)
(* contribution is 20                                                      *)
C28_Witness ==
    /\ RiskCall
    /\ ~AnyRaised(out.resp)
    /\ TotalDeposits(store) = 0
    /\ TotalLoans(store) >= 8
    /\ Parts.ldr = 0
    /\ Parts.ldr_score = 4000

(* every query the risk index had issued failed: each of the four          *)
(* sub-calculators stops at its first failed query                         *)
EveryQueryFailed == \A i \in {1, 2, 4, 5} : ~out.resp[i].ok

(* C29: on a store whose three tables are empty, and on any store when     *)
(* every query fails, calculate_bank_risk_index returns exactly 30.0: 0    *)
(* for NPL, 20 for liquidity, 0 for default rate, 10 for concentration.    *)
(* The zero fallbacks of the sub-calculators are scored as metric values   *)
(* and the index's own error fallback of 0.0 is not taken.                 *)
C29_EmptyOrFailingGivesThirty ==
    (RiskCall /\ (store = EmptyStore \/ EveryQueryFailed)) =>
        LET p == Parts
        IN  /\ out.result.value = 3000
            /\ p.npl_ratio = 0 /\ p.npl_score = 0
            /\ p.ldr = 0 /\ p.ldr_score = 4000
            /\ p.default_rate_value = 0 /\ p.default_score = 0
            /\ p.exposure_df = <<>>
            /\ QuotEq(p.concentration_score, 2000)
            /\ ~out.result.raised
            /\ LogError("calculate_bank_risk_index") \notin out.result.log
            /\ LogInfo("calculate_bank_risk_index") \in out.result.log

(* the index computed on the empty store with every query answered *)
C29_Witness ==
    /\ RiskCall
    /\ store = EmptyStore
    /\ ~AnyRaised(out.resp)
    /\ out.result.value = 3000
    /\ LogInfo("calculate_bank_risk_index") \in out.result.log

(* the risk page has been rendered and none of its queries failed *)
PageCall == out.op = "show_risk_overview" /\ ~AnyRaised(out.resp)

(* the contributions calculate_bank_risk_index added up during the         *)
(* rendering                                                               *)
PageParts == RiskParts(SubSeq(out.resp, 3, 7))

(* C30: the four components of the chart of show_risk_overview equal the   *)
(* four contributions calculate_bank_risk_index adds up on the same store: *)
(* the components sum to the risk index shown, the Loan-to-Deposit         *)
(* component equals the liquidity contribution for every LDR and the       *)
(* concentration component equals the HHI-based contribution.              *)
C30_ChartEqualsContributions ==
    PageCall =>
        LET p == PageParts
            c == out.result.value.risk_components
        IN  /\ c.npl_ratio = p.npl_score
            /\ c.loan_to_deposit = p.ldr_score
            /\ c.default_rate = p.default_score
            /\ QuotEq(p.concentration_score, c.concentracao)
            /\ out.result.value.risk_index =
                  RoundHalfEven(c.npl_ratio + c.loan_to_deposit
                                  + c.default_rate + c.concentracao, 2)

(* What the chart does share with the scorer: the NPL and default-rate     *)
(* components always; the Loan-to-Deposit component exactly when the LDR   *)
(* is at most 40, at least 140, or exactly 90.00; the concentration        *)
(* component exactly when the loans lie in at most one sector.             *)
C30_ChartAgreesOnlyInPart ==
    PageCall =>
        LET p == PageParts
            c == out.result.value.risk_components
        IN  /\ c.npl_ratio = p.npl_score
            /\ c.default_rate = p.default_score
            /\ (c.loan_to_deposit = p.ldr_score)
                  <=> (p.ldr <= 4000 \/ p.ldr >= 14000 \/ p.ldr = 9000)
            /\ QuotEq(p.concentration_score, c.concentracao)
                  <=> Cardinality(SectorsPresent(store.loans)) <= 1
            /\ c.loan_to_deposit >= p.ldr_score

(* an LDR inside the band (83.33): the scorer adds 0 for liquidity, the    *)
(* chart shows 3.33                                                        *)
C30_Witness ==
    /\ PageCall
    /\ 8000 < PageParts.ldr /\ PageParts.ldr < 9000
    /\ PageParts.ldr_score = 0
    /\ out.result.value.risk_components.loan_to_deposit > 0

-----------------------------------------------------------------------------
(* Properties on the reference scenario (SpecRef) *)

(* C15: on the reference scenario the engine returns ROA = 327.27, LDR =   *)
(* 266.67, default rate = (50.0, 37.5), NPL ratio = 37.5, CIR = 41.67, and *)
(* a financial summary with total_deposits = 300,000, total_loans =        *)
(* 800,000 and total_assets = 1,100,000.                                   *)
C15_ReferenceScenarioValues ==
    (store = RefStore /\ out.op \in Ops /\ ~AnyRaised(out.resp)) =>
        LET v == out.result.value
        IN  /\ out.op = "calculate_roa" => v = 32727
            /\ out.op = "calculate_loan_to_deposit_ratio" => v = 26667
            /\ out.op = "calculate_default_rate" => v = <<5000, 3750>>
            /\ out.op = "calculate_npl_ratio" => v = 3750
            /\ out.op = "calculate_cost_to_income_ratio" => v = 4167
            /\ out.op = "get_financial_summary" =>
                  /\ v.total_deposits * Unit = 300000
                  /\ v.total_loans * Unit = 800000
                  /\ v.total_assets * Unit = 1100000

(* get_financial_summary has returned on the reference scenario *)
C15_Witness ==
    /\ store = RefStore
    /\ out.op = "get_financial_summary"
    /\ ~AnyRaised(out.resp)
    /\ out.result.value.total_assets = 11
    /\ out.result.value.net_profit = 36

(* calculate_roe has returned and none of its queries failed *)
RoeCall == out.op = "calculate_roe" /\ ~AnyRaised(out.resp)

WindowProfit == ColumnSum(Recent(store.financial_statements, 12), "net_profit")

(* round(windowed sum of net_profit / (total_assets * 0.15) * 100, 2), in  *)
(* hundredths                                                              *)
RoeFormula == RoundHalfEven(WindowProfit * 100 * 100 * 100, TotalAssets(store) * 15)

====
